---- MODULE Spec2Model ----
(***************************************************************************)
(* acc2tax: batch resolution of GI numbers or accession strings to a      *)
(* taxonomic lineage.  The model follows src/acc2tax.c: main() and the    *)
(* loaders, the request loop, the byte-offset binary search over the      *)
(* sorted accession file, and the walk of the parent table.  Text is a    *)
(* sequence of byte codes; a file is the sequence of its bytes.           *)
(***************************************************************************)
EXTENDS Integers, Sequences, FiniteSets, TLC

(* ------------------------------------------------------------------ *)
(* Byte codes used by the program text                                 *)
(* ------------------------------------------------------------------ *)
TAB == 9
NL == 10
SPACE == 32
COMMA == 44
MINUS == 45
PLUS == 43
ZERO == 48
NINE == 57

(* Program constants *)
MAX_NAMES == 2000000
NodeListSize == 1024
LineSize == 1024
Threshold == 20

(* Bounds of the model *)
MaxGi == 6
MaxGiLines == 3
MaxAccLines == 2
MaxPad == 2

Unknown == <<85, 110, 107, 110, 111, 119, 110>>
ScientificName == <<115, 99, 105, 101, 110, 116, 105, 102, 105, 99, 32, 110, 97, 109, 101>>
NULL == <<-1>>
NoFile == <<-2>>
Uninit == <<-3>>

(* ------------------------------------------------------------------ *)
(* C library functions, as the program uses them                       *)
(* ------------------------------------------------------------------ *)
IsDigit(c) == c >= ZERO /\ c <= NINE

\* isspace(): tab, newline, vertical tab, form feed, carriage return, space
IsSpace(c) == (c >= TAB /\ c <= 13) \/ c = SPACE

RECURSIVE Digits(_, _, _)
\* the value of the decimal digits of s from index i on, acc being the value so far
Digits(s, i, acc) ==
    IF i <= Len(s) /\ IsDigit(s[i])
    THEN Digits(s, i + 1, 10 * acc + (s[i] - ZERO))
    ELSE acc

RECURSIVE SkipSpace(_, _)
SkipSpace(s, i) == IF i <= Len(s) /\ IsSpace(s[i]) THEN SkipSpace(s, i + 1) ELSE i

\* atoi(): leading white space, an optional sign, then digits; 0 without digits
Atoi(s) ==
    LET i == SkipSpace(s, 1)
    IN  IF i <= Len(s) /\ s[i] = MINUS THEN 0 - Digits(s, i + 1, 0)
        ELSE IF i <= Len(s) /\ s[i] = PLUS THEN Digits(s, i + 1, 0)
        ELSE Digits(s, i, 0)

RECURSIVE DecDigits(_)
DecDigits(n) == IF n < 10 THEN <<ZERO + n>> ELSE Append(DecDigits(n \div 10), ZERO + (n % 10))

\* printf("%i"): decimal text of an int
Itoa(n) == IF n < 0 THEN <<MINUS>> \o DecDigits(0 - n) ELSE DecDigits(n)

RECURSIVE Strcmp(_, _)
\* strcmp(): sign of the first differing byte, the end of a string being byte 0
Strcmp(a, b) ==
    IF a = <<>> /\ b = <<>> THEN 0
    ELSE IF a = <<>> THEN -1
    ELSE IF b = <<>> THEN 1
    ELSE IF Head(a) < Head(b) THEN -1
    ELSE IF Head(a) > Head(b) THEN 1
    ELSE Strcmp(Tail(a), Tail(b))

RECURSIVE Tokens(_, _)
\* the successive results of strtok(s, d), strtok(0, d), ...: the maximal runs
\* of bytes other than d
Tokens(s, d) ==
    IF s = <<>> THEN <<>>
    ELSE IF Head(s) = d THEN Tokens(Tail(s), d)
    ELSE LET k == CHOOSE j \in 1..Len(s) :
                     /\ \A m \in 1..j : s[m] # d
                     /\ (j = Len(s) \/ s[j + 1] = d)
         IN  <<SubSeq(s, 1, k)>> \o Tokens(SubSeq(s, k + 1, Len(s)), d)

\* the i-th token, NULL when strtok has run out
Tok(toks, i) == IF i <= Len(toks) THEN toks[i] ELSE NULL

\* the C string left in a buffer after strtok has cut its first token
AfterStrtok(s, d) ==
    LET toks == Tokens(s, d)
    IN  IF toks = <<>> THEN s
        ELSE LET lead == CHOOSE j \in 0..Len(s) :
                            /\ \A m \in 1..j : s[m] = d
                            /\ s[j + 1] # d
             IN SubSeq(s, 1, lead + Len(toks[1]))

\* fgets(buf, LineSize, fp) at stream offset pos: the bytes up to and including
\* the next newline, at most LineSize - 1 of them; NULL at end of file
Fgets(file, pos) ==
    IF pos >= Len(file) THEN NULL
    ELSE LET last == IF Len(file) < pos + LineSize - 1 THEN Len(file) ELSE pos + LineSize - 1
             ends == {j \in (pos + 1)..last : file[j] = NL}
             stop == IF ends = {} THEN last
                     ELSE CHOOSE j \in ends : \A m \in ends : j <= m
         IN  SubSeq(file, pos + 1, stop)

\* unsigned comparison x >= m of an int x converted to unsigned int with an
\* unsigned m below 2^31: a negative x converts to a value of at least 2^31
UnsignedGe(x, m) == x < 0 \/ x >= m

\* abs() of an int above INT_MIN
Abs(x) == IF x < 0 THEN 0 - x ELSE x

\* A long int of 64 bits that is not negative, as four limbs of 16 bits, the
\* lowest first: file offsets and widths of find_accession
LimbBase == 65536
LongZero == <<0, 0, 0, 0>>
\* the long of an offset below 2^31
LongOf(n) == <<n % LimbBase, (n \div LimbBase) % LimbBase, (n \div LimbBase) \div LimbBase, 0>>

RECURSIVE SubLimbs(_, _, _, _)
SubLimbs(a, b, i, borrow) ==
    IF i > 4 THEN <<>>
    ELSE LET d == a[i] - b[i] - borrow
         IN  <<IF d < 0 THEN d + LimbBase ELSE d>>
             \o SubLimbs(a, b, i + 1, IF d < 0 THEN 1 ELSE 0)
\* a - b for a >= b
LongSub(a, b) == SubLimbs(a, b, 1, 0)

RECURSIVE AddLimbs(_, _, _, _)
AddLimbs(a, b, i, carry) ==
    IF i > 4 THEN <<>>
    ELSE LET d == a[i] + b[i] + carry
         IN  <<d % LimbBase>> \o AddLimbs(a, b, i + 1, d \div LimbBase)
\* a + b
LongAdd(a, b) == AddLimbs(a, b, 1, 0)

RECURSIVE HalfLimbs(_, _, _)
HalfLimbs(a, i, rem) ==
    IF i = 0 THEN <<>>
    ELSE HalfLimbs(a, i - 1, a[i] % 2) \o <<(rem * LimbBase + a[i]) \div 2>>
\* a / 2
LongHalf(a) == HalfLimbs(a, 4, 0)

RECURSIVE LessLimbs(_, _, _)
LessLimbs(a, b, i) ==
    IF i = 0 THEN FALSE
    ELSE IF a[i] # b[i] THEN a[i] < b[i]
    ELSE LessLimbs(a, b, i - 1)
\* a < b
LongLess(a, b) == LessLimbs(a, b, 4)

\* INT_MIN
IntMin == (0 - 2147483647) - 1
\* the int a long converts to when it is passed to abs(int): its low 32
\* bits, read as two's complement
IntOfLong(w) ==
    IF w[2] < LimbBase \div 2 THEN w[2] * LimbBase + w[1]
    ELSE (w[2] - LimbBase) * LimbBase + w[1]

(* ------------------------------------------------------------------ *)
(* Helpers of the program                                              *)
(* ------------------------------------------------------------------ *)
RECURSIVE chomp(_)
\* drops bytes below ' ' from the end while the index is above 0
chomp(str) ==
    IF Len(str) - 1 > 0 /\ str[Len(str)] < SPACE
    THEN chomp(SubSeq(str, 1, Len(str) - 1))
    ELSE str

RECURSIVE SplitFields(_)
\* the fields[][] of get_name_fields: every tab starts a new field
SplitFields(s) ==
    IF \A j \in 1..Len(s) : s[j] # TAB THEN <<s>>
    ELSE LET k == CHOOSE j \in 1..Len(s) : s[j] = TAB /\ \A m \in 1..(j - 1) : s[m] # TAB
         IN  <<SubSeq(s, 1, k - 1)>> \o SplitFields(SubSeq(s, k + 1, Len(s)))

\* get_name_fields: fields 0, 2, 4 and 6 of the line; the fields array is not
\* cleared, so a field the line does not have is NULL here (its bytes are
\* whatever the stack holds)
get_name_fields(string) ==
    LET f == SplitFields(string)
        At(k) == IF k + 1 <= Len(f) THEN f[k + 1] ELSE NULL
    IN  [id |-> At(0), name |-> At(2), unique_name |-> At(4), class |-> At(6)]

RECURSIVE ScanBack(_, _)
\* the backward loop of get_closest_record from offset pos >= 0: the stream
\* offset it leaves, one past the byte read last.  The loop stops after
\* reading a newline, or after reading offset 0.
ScanBack(file, pos) ==
    IF pos < Len(file) /\ file[pos + 1] = NL THEN pos + 1
    ELSE IF pos = 0 THEN (IF Len(file) > 0 THEN 1 ELSE 0)
    ELSE ScanBack(file, pos - 1)

\* get_closest_record: the line read at the offset the scan leaves; at end of
\* file fgets fails and the buffer keeps what it held
get_closest_record(file, pos, line) ==
    LET got == Fgets(file, ScanBack(file, pos))
    IN  IF got = NULL THEN line ELSE got

\* split_fields: the four tab-separated tokens of the line
split_fields(line) ==
    LET toks == Tokens(line, TAB)
    IN  [accession |-> Tok(toks, 1),
         version   |-> Tok(toks, 2),
         taxid     |-> IF Tok(toks, 3) # NULL THEN Atoi(toks[3]) ELSE 0,
         gi        |-> IF Tok(toks, 4) # NULL THEN Atoi(toks[4]) ELSE 0]

\* the outcomes of abs(w) < 20 for the long width w: the argument is converted
\* to int, and abs(INT_MIN) is undefined
GivesUp(w) ==
    IF IntOfLong(w) = IntMin THEN BOOLEAN ELSE {Abs(IntOfLong(w)) < Threshold}

\* the test that ends the search loop without a match, for offsets below 2^31
Converged(min, max) == TRUE \in GivesUp(LongOf(max - min))

\* the middle of the search range
Middle(min, max) == min + ((max - min) \div 2)

\* the test of the walk loop
WalkContinues(node) == node > 1

\* a comma after the last element too
SeparatorAlways(i) == <<COMMA>>

\* what the rendering loop appends after element i of node_list (0-based)
Separator(i) == IF i > 0 THEN <<COMMA>> ELSE <<>>

\* the bound itself taken for an entry of the table
GiOutOfRangeOffByOne(gi, maxgi) == gi < 0 \/ gi > maxgi

\* the test of load_gi_to_node_list on a gi read from the file
GiOutOfRange(gi, maxgi) == UnsignedGe(gi, maxgi)

(* ------------------------------------------------------------------ *)
(* The files the runs of the model are given                           *)
(* ------------------------------------------------------------------ *)
RECURSIVE Cat(_)
Cat(lines) == IF lines = <<>> THEN <<>> ELSE Head(lines) \o Cat(Tail(lines))

RECURSIVE Rep(_, _)
Rep(c, k) == IF k = 0 THEN <<>> ELSE <<c>> \o Rep(c, k - 1)

\* the separator and the line end of the NCBI dump files: tab, bar, tab
Sep == <<TAB, 124, TAB>>
End == <<TAB, 124, NL>>

\* a line of nodes.dmp: child | parent |
NodesLine(c, p) == Itoa(c) \o Sep \o Itoa(p) \o End
\* a line of names.dmp: id | name | unique name | class |
NamesLine(id, name, class) == Itoa(id) \o Sep \o name \o Sep \o Sep \o class \o End
\* a line of gi_taxid_*.dmp
GiLine(gi, taxid) == Itoa(gi) \o <<TAB>> \o Itoa(taxid) \o <<NL>>
\* a record of acc2tax_*_all.txt; the version field is p * 8 bytes longer than "1"
AccLine(acc, p, taxid, gi) ==
    acc \o <<TAB, 49>> \o Rep(ZERO, 8 * p) \o <<TAB>> \o Itoa(taxid) \o <<TAB>> \o Itoa(gi) \o <<NL>>

Synonym == <<115, 121, 110, 111, 110, 121, 109>>
NameRoot == <<114, 111, 111, 116>>
NameB == <<66, 97, 99>>
NameP == <<80, 114, 111>>
NameQ == <<81, 117, 105>>
NameC == <<67, 121, 97>>
NameD == <<68, 101, 105>>
NameX == <<88, 101, 110>>

\* a tree 4 -> 3 -> 2 -> 1, a cycle 5 -> 6 -> 5, a taxon 7 whose parent 8 has
\* no line, and a line with one field only
NodesAll ==
    Cat(<< NodesLine(1, 1), NodesLine(2, 1), NodesLine(3, 2), <<57, NL>>,
           NodesLine(4, 3), NodesLine(5, 6), NodesLine(6, 5), NodesLine(7, 8) >>)
\* a tree only: 3 -> 2 -> 1 and 4 -> 1
NodesTree == Cat(<< NodesLine(1, 1), NodesLine(2, 1), NodesLine(3, 2), NodesLine(4, 1) >>)

\* the tree and a taxon whose id is the size of the tables
NodesBig == NodesTree \o NodesLine(MAX_NAMES, 1)

\* taxon 2 has a synonym, taxon 3 two scientific names, taxa 4 and 8 no name
NamesAll ==
    Cat(<< NamesLine(1, NameRoot, ScientificName), NamesLine(2, NameB, ScientificName),
           NamesLine(2, NameX, Synonym), NamesLine(3, NameP, ScientificName),
           NamesLine(3, NameQ, ScientificName), NamesLine(5, NameC, ScientificName),
           NamesLine(6, NameD, ScientificName), NamesLine(7, NameX, ScientificName) >>)

\* gi 1 -> 2, gi 2 -> 3 and then 2 -> 4, gi 3 -> 5, a malformed line, and the
\* last gi of the table; gi 4 has no line
GiGood(m) ==
    Cat(<< GiLine(1, 2), GiLine(2, 3), <<53, NL>>, GiLine(2, 4), GiLine(3, 5),
           GiLine(m - 1, 7) >>)
\* the gi of the fourth line is the bound itself
GiOver(m) ==
    Cat(<< GiLine(1, 2), <<53, NL>>, GiLine(m - 1, 3), GiLine(m, 4), GiLine(2, 3) >>)
\* a negative gi
GiNegative(m) == Cat(<< GiLine(1, 2), GiLine(-1, 3), GiLine(2, 3) >>)

AccKey(d1, d2) == <<65, ZERO, ZERO, ZERO + d1, ZERO + d2>>
\* the sorted records A0001, A0005, A0009, A0012, all of one length
AccFour(p) ==
    Cat(<< AccLine(AccKey(0, 1), p, 2, 5), AccLine(AccKey(0, 5), p, 0, 6),
           AccLine(AccKey(0, 9), p, 5, 7), AccLine(AccKey(1, 2), p, 4, 8) >>)
\* the same keys over taxa of the tree
AccTree(p) ==
    Cat(<< AccLine(AccKey(0, 1), p, 2, 5), AccLine(AccKey(0, 5), p, 3, 6),
           AccLine(AccKey(0, 9), p, 1, 7), AccLine(AccKey(1, 2), p, 4, 8) >>)

\* keys whose second byte sorts after the first: AB001, AC001, AD001
AccKeyLetters(c) == <<65, c, ZERO, ZERO, 49>>
\* sorted records of unequal length: the first is 36 bytes, the others 12
AccUneven ==
    Cat(<< AccLine(AccKeyLetters(66), 3, 2, 5), AccLine(AccKeyLetters(67), 0, 3, 6),
           AccLine(AccKeyLetters(68), 0, 4, 7) >>)

\* an accession file of no bytes
AccEmpty == <<>>

\* request lines of GI mode
GiRequestLines ==
    { <<49, NL>>, <<48, 48, 49, NL>>, <<50, 13, NL>>, <<52, NL>>, <<57, NL>>, <<48, NL>> }
\* request lines of accession mode: the four keys, two absent keys and the
\* first key without its first byte
AccRequestLines ==
    { AccKey(0, 1) \o <<NL>>, AccKey(0, 5) \o <<NL>>, AccKey(0, 9) \o <<NL>>,
      AccKey(1, 2) \o <<NL>>, AccKey(0, 3) \o <<NL>>, AccKey(9, 9) \o <<NL>>,
      <<ZERO, ZERO, ZERO, 49, NL>> }

\* request lines that end in a space or a tab before the newline, and lines of
\* nothing but a newline, or a carriage return and a newline
BlankEndedLines ==
    { AccKey(0, 5) \o <<SPACE, NL>>, AccKey(0, 5) \o <<TAB, 13, NL>>, <<NL>>, <<13, NL>> }

SeqsUpTo(S, n) == UNION { [1..k -> S] : k \in 0..n }

Files(gi, acc, nodesf, namesf, input, ok) ==
    [gi |-> gi, acc |-> acc, nodes |-> nodesf, names |-> namesf, input |-> input,
     output_ok |-> ok]

\* runs with -g: the good GI file over every request file of up to MaxGiLines
\* lines, every GI file over one request, and a request for the last gi of
\* the table, whose taxon 7 has a parent without a line in nodes.dmp, also
\* over a nodes.dmp with a taxon id of MAX_NAMES
GiRuns ==
    { [is_gi |-> TRUE, max_gi |-> MaxGi,
       fs |-> Files(g, NoFile, NodesAll, NamesAll, Cat(q), TRUE)] :
      g \in {GiGood(MaxGi)}, q \in SeqsUpTo(GiRequestLines, MaxGiLines) }
    \cup
    { [is_gi |-> TRUE, max_gi |-> MaxGi,
       fs |-> Files(g, NoFile, NodesTree, NamesAll, <<49, NL>>, TRUE)] :
      g \in {GiOver(MaxGi), GiNegative(MaxGi), GiGood(MaxGi)} }
    \cup
    { [is_gi |-> TRUE, max_gi |-> MaxGi,
       fs |-> Files(GiGood(MaxGi), NoFile, n, NamesAll, Itoa(MaxGi - 1) \o <<NL>>, TRUE)] :
      n \in {NodesAll, NodesBig} }

\* runs with -a: record lengths 12 + 8 * p over every request file of up to
\* MaxAccLines lines, single requests over a file with a taxon of the cycle,
\* single requests over the file of unequal records, a request over the
\* empty file, and requests that end in blanks
AccRuns ==
    { [is_gi |-> FALSE, max_gi |-> MaxGi,
       fs |-> Files(NoFile, a, n, NamesAll, Cat(q), TRUE)] :
      a \in { AccTree(p) : p \in 0..MaxPad }, n \in {NodesAll},
      q \in SeqsUpTo(AccRequestLines, MaxAccLines) }
    \cup
    { [is_gi |-> FALSE, max_gi |-> MaxGi,
       fs |-> Files(NoFile, AccFour(p), n, NamesAll, q, TRUE)] :
      p \in 0..MaxPad, n \in {NodesAll, NodesTree}, q \in AccRequestLines }
    \cup
    { [is_gi |-> FALSE, max_gi |-> MaxGi,
       fs |-> Files(NoFile, AccUneven, NodesTree, NamesAll, AccKeyLetters(c) \o <<NL>>, TRUE)] :
      c \in {66, 67, 68} }
    \cup
    { [is_gi |-> FALSE, max_gi |-> MaxGi,
       fs |-> Files(NoFile, AccEmpty, NodesTree, NamesAll, AccKey(0, 5) \o <<NL>>, TRUE)] }
    \cup
    { [is_gi |-> FALSE, max_gi |-> MaxGi,
       fs |-> Files(NoFile, AccTree(1), NodesTree, NamesAll, q, TRUE)] : q \in BlankEndedLines }

\* runs in which one file cannot be opened
FailRuns ==
    { [is_gi |-> TRUE, max_gi |-> MaxGi, fs |-> f] :
      f \in { Files(NoFile, NoFile, NodesTree, NamesAll, <<49, NL>>, TRUE),
               Files(GiGood(MaxGi), NoFile, NoFile, NamesAll, <<49, NL>>, TRUE),
               Files(GiGood(MaxGi), NoFile, NodesTree, NoFile, <<49, NL>>, TRUE),
               Files(GiGood(MaxGi), NoFile, NodesTree, NamesAll, NoFile, TRUE),
               Files(GiGood(MaxGi), NoFile, NodesTree, NamesAll, <<49, NL>>, FALSE) } }
    \cup
    { [is_gi |-> FALSE, max_gi |-> MaxGi, fs |-> f] :
      f \in { Files(NoFile, NoFile, NodesTree, NamesAll, AccKey(0, 5) \o <<NL>>, TRUE),
               Files(NoFile, AccTree(1), NoFile, NamesAll, AccKey(0, 5) \o <<NL>>, TRUE),
               Files(NoFile, AccTree(1), NodesTree, NoFile, AccKey(0, 5) \o <<NL>>, TRUE),
               Files(NoFile, AccTree(1), NodesTree, NamesAll, NoFile, TRUE),
               Files(NoFile, AccTree(1), NodesTree, NamesAll, AccKey(0, 5) \o <<NL>>, FALSE) } }

Runs == GiRuns \cup AccRuns \cup FailRuns

\* what an array that was never written may hold
Garbage == { <<>>, <<63, 63>> }

(* ------------------------------------------------------------------ *)
(* State                                                               *)
(* ------------------------------------------------------------------ *)
VARIABLES
    is_gi,          \* -g given (otherwise is_accession)
    max_gi,         \* entries of gi_to_node
    fs,             \* the files of the run; NoFile for one that cannot be opened
    pc,             \* where main() is
    exit_status,    \* "none" while running, "0", "1", or "signal"
    gi_to_node,     \* the GI table
    nodes,          \* parent table: the entries written; all others are 0
    names,          \* name table: the entries written; all others are null
    acc_fp,         \* "null", "open" or "closed"
    acc_file_size,
    fp_pos,         \* offset of the stream fp / fp_in being read
    line,           \* process_request_file: the request line
    buffer,         \* process_request_file: the record buffer of find_accession
    t,              \* process_request_file: the taxonomy buffer
    count,          \* request lines read
    out,            \* lines written to the output file, each with the count of its request
    log,            \* diagnostics written to stdout, each with the count of its request
    min, max, found,\* find_accession
    rec,            \* accession, version, taxid, gi set by split_fields
    current_node,   \* get_taxonomy_from_node
    node_list,      \* get_taxonomy_from_node; n is its length
    ub              \* undefined operations executed so far

vars == << is_gi, max_gi, fs, pc, exit_status, gi_to_node, nodes, names, acc_fp,
           acc_file_size, fp_pos, line, buffer, t, count, out, log, min, max, found,
           rec, current_node, node_list, ub >>

config == << is_gi, max_gi, fs >>
tables == << gi_to_node, nodes, names >>
search == << min, max, found, rec, buffer >>
request == << line, t, count, out, current_node, node_list >>

NoRec == [accession |-> NULL, version |-> NULL, taxid |-> 0, gi |-> 0]

Init ==
    /\ \E r \in Runs : is_gi = r.is_gi /\ max_gi = r.max_gi /\ fs = r.fs
    /\ pc = "allocate_memory"
    /\ exit_status = "none"
    /\ gi_to_node = <<>> /\ nodes = <<>> /\ names = <<>>
    /\ acc_fp = "null" /\ acc_file_size = 0
    /\ fp_pos = 0
    /\ line = <<>>
    /\ buffer = Uninit
    /\ t \in Garbage
    /\ count = 0 /\ out = <<>> /\ log = <<>>
    /\ min = 0 /\ max = 0 /\ found = 0
    /\ rec = NoRec
    /\ current_node = 0 /\ node_list = <<>>
    /\ ub = {}

(* ------------------------------------------------------------------ *)
(* Tables                                                              *)
(* ------------------------------------------------------------------ *)
\* the value of nodes[i] / gi_to_node[i]: calloc leaves 0 where nothing was stored
At(tbl, i) == IF i \in DOMAIN tbl THEN tbl[i] ELSE 0
\* the value of names[i]: a null pointer where nothing was stored
NameAt(tbl, i) == IF i \in DOMAIN tbl THEN tbl[i] ELSE NULL
\* tbl[i] = v
Put(tbl, i, v) == [j \in DOMAIN tbl \cup {i} |-> IF j = i THEN v ELSE tbl[j]]
\* an index the nodes and names tables have
InTable(i) == i >= 0 /\ i < MAX_NAMES

Say(msg) == Append(log, [n |-> count, msg |-> msg])
Exit(status) == pc' = "exited" /\ exit_status' = status
Crash == pc' = "crashed" /\ exit_status' = "signal"

(* ------------------------------------------------------------------ *)
(* main: allocate_memory                                               *)
(* ------------------------------------------------------------------ *)
allocate_memory ==
    /\ pc = "allocate_memory"
    /\ gi_to_node' = IF is_gi THEN [g \in 0..(max_gi - 1) |-> 0] ELSE gi_to_node
    /\ names' = <<>>
    /\ nodes' = <<>>
    /\ pc' = IF is_gi THEN "load_gi_to_node_list" ELSE "load_accession_file"
    /\ UNCHANGED << config, exit_status, acc_fp, acc_file_size, fp_pos, search, request,
                    log, ub >>

(* ------------------------------------------------------------------ *)
(* A loader whose fopen failed prints the error and goes on to         *)
(* feof(fp), fgets and fclose(fp) with fp null: undefined.  The run    *)
(* either dies there or comes through with nothing read.               *)
(* ------------------------------------------------------------------ *)
NullStream(next) ==
    /\ log' = Say("can't open")
    /\ ub' = ub \cup {"null stream"}
    /\ \/ Crash
       \/ pc' = next /\ UNCHANGED exit_status

(* ------------------------------------------------------------------ *)
(* load_gi_to_node_list                                                *)
(* ------------------------------------------------------------------ *)
load_gi_to_node_list_open ==
    /\ pc = "load_gi_to_node_list"
    /\ IF fs.gi = NoFile
       THEN NullStream("load_node_list") /\ UNCHANGED fp_pos
       ELSE pc' = "gi_line" /\ fp_pos' = 0 /\ UNCHANGED << exit_status, log, ub >>
    /\ UNCHANGED << config, tables, acc_fp, acc_file_size, search, request >>

load_gi_to_node_list_line ==
    /\ pc = "gi_line"
    /\ fp_pos < Len(fs.gi)
    /\ LET l == Fgets(fs.gi, fp_pos)
           toks == Tokens(l, TAB)
           gi_str == Tok(toks, 1)
           node_id_str == Tok(toks, 2)
       IN  IF gi_str = NULL \/ node_id_str = NULL
           THEN /\ log' = Say("bad line in GI file")
                /\ fp_pos' = fp_pos + Len(l)
                /\ UNCHANGED << pc, exit_status, gi_to_node >>
           ELSE IF GiOutOfRange(Atoi(gi_str), max_gi)
           THEN /\ log' = Say("GI out of range")
                /\ Exit("1")
                /\ UNCHANGED << fp_pos, gi_to_node >>
           ELSE /\ gi_to_node' = Put(gi_to_node, Atoi(gi_str), Atoi(node_id_str))
                /\ fp_pos' = fp_pos + Len(l)
                /\ UNCHANGED << pc, exit_status, log >>
    /\ UNCHANGED << config, nodes, names, acc_fp, acc_file_size, search, request, ub >>

load_gi_to_node_list_end ==
    /\ pc = "gi_line"
    /\ fp_pos >= Len(fs.gi)
    /\ pc' = "load_node_list"
    /\ UNCHANGED << config, exit_status, tables, acc_fp, acc_file_size, fp_pos, search,
                    request, log, ub >>

(* ------------------------------------------------------------------ *)
(* load_accession_file, open_acc_file                                  *)
(* ------------------------------------------------------------------ *)
open_acc_file ==
    /\ pc = "load_accession_file"
    /\ IF fs.acc = NoFile
       THEN /\ log' = Say("can't open")
            /\ Exit("1")
            /\ UNCHANGED << acc_fp, acc_file_size >>
       ELSE /\ acc_fp' = "open"
            /\ acc_file_size' = Len(fs.acc)
            /\ pc' = "load_node_list"
            /\ UNCHANGED << exit_status, log >>
    /\ UNCHANGED << config, tables, fp_pos, search, request, ub >>

(* ------------------------------------------------------------------ *)
(* load_node_list                                                      *)
(* ------------------------------------------------------------------ *)
load_node_list_open ==
    /\ pc = "load_node_list"
    /\ IF fs.nodes = NoFile
       THEN NullStream("load_name_list") /\ UNCHANGED fp_pos
       ELSE pc' = "node_line" /\ fp_pos' = 0 /\ UNCHANGED << exit_status, log, ub >>
    /\ UNCHANGED << config, tables, acc_fp, acc_file_size, search, request >>

load_node_list_line ==
    /\ pc = "node_line"
    /\ fp_pos < Len(fs.nodes)
    /\ LET l == Fgets(fs.nodes, fp_pos)
           toks == Tokens(l, TAB)
           child_str == Tok(toks, 1)
           parent_str == Tok(toks, 3)
       IN  /\ fp_pos' = fp_pos + Len(l)
           /\ IF child_str = NULL \/ parent_str = NULL
              THEN /\ log' = Say("bad line in nodes file")
                   /\ UNCHANGED << pc, exit_status, nodes, ub >>
              ELSE IF InTable(Atoi(child_str))
              THEN /\ nodes' = Put(nodes, Atoi(child_str), Atoi(parent_str))
                   /\ UNCHANGED << pc, exit_status, log, ub >>
              ELSE \* a store outside the table
                   /\ ub' = ub \cup {"nodes index"}
                   /\ (Crash \/ UNCHANGED << pc, exit_status >>)
                   /\ UNCHANGED << nodes, log >>
    /\ UNCHANGED << config, gi_to_node, names, acc_fp, acc_file_size, search, request >>

load_node_list_end ==
    /\ pc = "node_line"
    /\ fp_pos >= Len(fs.nodes)
    /\ pc' = "load_name_list"
    /\ UNCHANGED << config, exit_status, tables, acc_fp, acc_file_size, fp_pos, search,
                    request, log, ub >>

(* ------------------------------------------------------------------ *)
(* load_name_list                                                      *)
(* ------------------------------------------------------------------ *)
load_name_list_open ==
    /\ pc = "load_name_list"
    /\ IF fs.names = NoFile
       THEN NullStream("process_request_file") /\ UNCHANGED fp_pos
       ELSE pc' = "name_line" /\ fp_pos' = 0 /\ UNCHANGED << exit_status, log, ub >>
    /\ UNCHANGED << config, tables, acc_fp, acc_file_size, search, request >>

load_name_list_line ==
    /\ pc = "name_line"
    /\ fp_pos < Len(fs.names)
    /\ LET l == Fgets(fs.names, fp_pos)
           f == get_name_fields(l)
           id == Atoi(f.id)
       IN  /\ fp_pos' = fp_pos + Len(l)
           /\ \E scientific \in (IF f.class = NULL THEN BOOLEAN
                                 ELSE {Strcmp(f.class, ScientificName) = 0}) :
              \E name \in (IF f.name = NULL THEN Garbage ELSE {f.name}) :
                 IF ~scientific
                 THEN UNCHANGED << pc, exit_status, names, ub >>
                 ELSE IF InTable(id)
                 THEN names' = Put(names, id, name) /\ UNCHANGED << pc, exit_status, ub >>
                 ELSE \* a store outside the table
                      /\ ub' = ub \cup {"names index"}
                      /\ (Crash \/ UNCHANGED << pc, exit_status >>)
                      /\ UNCHANGED names
    /\ UNCHANGED << config, gi_to_node, nodes, acc_fp, acc_file_size, search, request, log >>

load_name_list_end ==
    /\ pc = "name_line"
    /\ fp_pos >= Len(fs.names)
    /\ pc' = "process_request_file"
    /\ UNCHANGED << config, exit_status, tables, acc_fp, acc_file_size, fp_pos, search,
                    request, log, ub >>

(* ------------------------------------------------------------------ *)
(* get_taxonomy_from_node                                              *)
(* ------------------------------------------------------------------ *)
\* one element of the lineage: the name of the node, or "Unknown"
Element(nm, node) == IF NameAt(nm, node) # NULL THEN NameAt(nm, node) ELSE Unknown

RECURSIVE RenderLoop(_, _, _, _)
\* the for loop from i = n - 1 down to 0; node_list[i] is list[i + 1]
RenderLoop(nm, list, i, taxonomy) ==
    IF i < 0 THEN taxonomy
    ELSE RenderLoop(nm, list, i - 1, taxonomy \o Element(nm, list[i + 1]) \o Separator(i))

RECURSIVE Nameless(_, _, _)
\* "no name for node" diagnostics of the for loop, in its order
Nameless(nm, list, i) ==
    IF i < 0 THEN <<>>
    ELSE (IF NameAt(nm, list[i + 1]) = NULL THEN <<"no name for node">> ELSE <<>>)
         \o Nameless(nm, list, i - 1)

RECURSIVE SayAll(_, _, _)
SayAll(lg, msgs, k) ==
    IF msgs = <<>> THEN lg
    ELSE SayAll(Append(lg, [n |-> k, msg |-> Head(msgs)]), Tail(msgs), k)

\* the identifier the request loop prints: the number in GI mode ("%i"), the
\* request line in accession mode ("%s")
Identifier == IF is_gi THEN Itoa(Atoi(line)) ELSE line

\* the call get_taxonomy_from_node(node, t): taxonomy[0] = 0, n = 0
EnterWalk(node) ==
    /\ current_node' = node
    /\ node_list' = <<>>
    /\ t' = <<>>
    /\ pc' = "get_taxonomy_from_node"

\* an iteration of the while loop: node_list[n++] = current_node;
\* current_node = nodes[current_node].  A store past the end of node_list or a
\* load from outside the table is undefined: the run dies, or goes on.
get_taxonomy_from_node_step ==
    /\ pc = "get_taxonomy_from_node"
    /\ WalkContinues(current_node)
    /\ IF Len(node_list) >= NodeListSize
       THEN /\ ub' = ub \cup {"node_list index"}
            /\ \/ Crash /\ UNCHANGED << t, out >>
               \/ /\ t' \in Garbage
                  /\ out' = Append(out, [n |-> count, id |-> Identifier, lineage |-> t'])
                  /\ pc' = "request_line"
                  /\ UNCHANGED exit_status
            /\ UNCHANGED << current_node, node_list >>
       ELSE IF ~InTable(current_node)
       THEN /\ ub' = ub \cup {"nodes index"}
            /\ node_list' = Append(node_list, current_node)
            /\ \/ Crash /\ UNCHANGED current_node
               \/ current_node' \in {0, 1} /\ UNCHANGED << pc, exit_status >>
            /\ UNCHANGED << t, out >>
       ELSE /\ node_list' = Append(node_list, current_node)
            /\ current_node' = At(nodes, current_node)
            /\ UNCHANGED << pc, exit_status, t, out, ub >>
    /\ UNCHANGED << config, tables, acc_fp, acc_file_size, fp_pos, search, line, count, log >>

\* the loop has ended: the for loop renders node_list into t, the function
\* returns and the request loop prints the line
get_taxonomy_from_node_return ==
    /\ pc = "get_taxonomy_from_node"
    /\ ~WalkContinues(current_node)
    /\ t' = RenderLoop(names, node_list, Len(node_list) - 1, <<>>)
    /\ out' = Append(out, [n |-> count, id |-> Identifier, lineage |-> t'])
    /\ log' = SayAll(log, Nameless(names, node_list, Len(node_list) - 1), count)
    /\ pc' = "request_line"
    /\ ub' = IF \E i \in 1..Len(node_list) : ~InTable(node_list[i])
             THEN ub \cup {"names index"} ELSE ub
    /\ UNCHANGED << config, tables, exit_status, acc_fp, acc_file_size, fp_pos, search, line,
                    count, current_node, node_list >>

(* ------------------------------------------------------------------ *)
(* process_request_file                                                *)
(* ------------------------------------------------------------------ *)
process_request_file_open ==
    /\ pc = "process_request_file"
    /\ IF fs.input = NoFile \/ ~fs.output_ok
       THEN /\ log' = Say("can't open")
            /\ Exit("1")
            /\ UNCHANGED fp_pos
       ELSE /\ pc' = "request_line"
            /\ fp_pos' = 0
            /\ UNCHANGED << exit_status, log >>
    /\ UNCHANGED << config, tables, acc_fp, acc_file_size, search, request, ub >>

\* one request line of GI mode: atoi, get_taxonomy_by_gi, and the fprintf when
\* get_taxonomy_by_gi returns without a walk
request_gi ==
    /\ pc = "request_line"
    /\ is_gi
    /\ fp_pos < Len(fs.input)
    /\ LET l == chomp(Fgets(fs.input, fp_pos))
           gi == Atoi(l)
       IN  /\ fp_pos' = fp_pos + Len(Fgets(fs.input, fp_pos))
           /\ line' = l
           /\ count' = count + 1
           /\ IF gi < 1
              THEN /\ log' = Append(log, [n |-> count + 1, msg |-> "bad GI in request file"])
                   /\ UNCHANGED << pc, t, out, current_node, node_list >>
              ELSE IF UnsignedGe(gi, max_gi)
              THEN /\ log' = Append(log, [n |-> count + 1, msg |-> "bad GI"])
                   /\ out' = Append(out, [n |-> count + 1, id |-> Itoa(gi), lineage |-> t])
                   /\ UNCHANGED << pc, t, current_node, node_list >>
              ELSE IF At(gi_to_node, gi) = 0
              THEN /\ log' = Append(log, [n |-> count + 1, msg |-> "GI node invalid"])
                   /\ out' = Append(out, [n |-> count + 1, id |-> Itoa(gi), lineage |-> t])
                   /\ UNCHANGED << pc, t, current_node, node_list >>
              ELSE EnterWalk(At(gi_to_node, gi)) /\ UNCHANGED << out, log >>
    /\ UNCHANGED << config, tables, exit_status, acc_fp, acc_file_size, search, ub >>

\* one request line of accession mode: find_accession is entered
request_accession ==
    /\ pc = "request_line"
    /\ ~is_gi
    /\ fp_pos < Len(fs.input)
    /\ fp_pos' = fp_pos + Len(Fgets(fs.input, fp_pos))
    /\ line' = chomp(Fgets(fs.input, fp_pos))
    /\ count' = count + 1
    /\ min' = 0
    /\ max' = acc_file_size
    /\ found' = 0
    /\ pc' = "find_accession"
    /\ UNCHANGED << config, tables, exit_status, acc_fp, acc_file_size, rec, buffer, t, out,
                    current_node, node_list, log, ub >>

\* one iteration of the loop of find_accession
find_accession_step ==
    /\ pc = "find_accession"
    /\ LET current_pos == Middle(min, max)
           read == Fgets(fs.acc, ScanBack(fs.acc, current_pos))
       IN  \* a failed fgets leaves the buffer as it was: never written, or the
           \* last record as strtok cut it
           \E held \in (IF read = NULL /\ buffer = Uninit THEN Garbage ELSE {buffer}) :
              LET got == get_closest_record(fs.acc, current_pos, held)
                  r == split_fields(got)
                  similarity == Strcmp(r.accession, line)
                  min1 == IF similarity < 0 THEN current_pos ELSE min
                  max1 == IF similarity > 0 THEN current_pos ELSE max
              IN  IF r.accession = NULL
                  THEN \* strcmp of a null pointer
                       /\ ub' = ub \cup {"null accession"}
                                \cup (IF read = NULL /\ buffer = Uninit
                                      THEN {"uninitialised line"} ELSE {})
                       /\ Crash
                       /\ UNCHANGED << min, max, found, rec, buffer >>
                  ELSE /\ rec' = r
                       /\ buffer' = AfterStrtok(got, TAB)
                       /\ found' = IF similarity = 0 THEN 1 ELSE 0
                       /\ min' = min1
                       /\ max' = max1
                       /\ pc' = IF similarity = 0 \/ Converged(min1, max1)
                                THEN "find_accession_return" ELSE "find_accession"
                       /\ ub' = IF read = NULL /\ buffer = Uninit
                                THEN ub \cup {"uninitialised line"} ELSE ub
                       /\ UNCHANGED exit_status
    /\ UNCHANGED << config, tables, acc_fp, acc_file_size, fp_pos, request, log >>

\* the rest of the loop body of accession mode, after find_accession returned
request_accession_found ==
    /\ pc = "find_accession_return"
    /\ IF found = 1
       THEN IF rec.taxid = 0
            THEN /\ t' = Unknown
                 /\ out' = Append(out, [n |-> count, id |-> line, lineage |-> Unknown])
                 /\ pc' = "request_line"
                 /\ UNCHANGED << current_node, node_list, log >>
            ELSE EnterWalk(rec.taxid) /\ UNCHANGED << out, log >>
       ELSE /\ log' = Say("Couldn't find")
            /\ pc' = "request_line"
            /\ UNCHANGED << t, out, current_node, node_list >>
    /\ UNCHANGED << config, tables, exit_status, acc_fp, acc_file_size, fp_pos, search, line,
                    count, ub >>

\* end of the request file: both files are closed
process_request_file_end ==
    /\ pc = "request_line"
    /\ fp_pos >= Len(fs.input)
    /\ log' = Say("Done")
    /\ pc' = IF ~is_gi THEN "close_acc_file" ELSE "return"
    /\ UNCHANGED << config, exit_status, tables, acc_fp, acc_file_size, fp_pos, search,
                    request, ub >>

close_acc_file ==
    /\ pc = "close_acc_file"
    /\ acc_fp' = IF acc_fp = "open" THEN "closed" ELSE acc_fp
    /\ pc' = "return"
    /\ UNCHANGED << config, exit_status, tables, acc_file_size, fp_pos, search, request,
                    log, ub >>

main_return ==
    /\ pc = "return"
    /\ pc' = "done"
    /\ exit_status' = "0"
    /\ UNCHANGED << config, tables, acc_fp, acc_file_size, fp_pos, search, request, log, ub >>

Next ==
    \/ allocate_memory
    \/ load_gi_to_node_list_open
    \/ load_gi_to_node_list_line
    \/ load_gi_to_node_list_end
    \/ open_acc_file
    \/ load_node_list_open
    \/ load_node_list_line
    \/ load_node_list_end
    \/ load_name_list_open
    \/ load_name_list_line
    \/ load_name_list_end
    \/ process_request_file_open
    \/ request_gi
    \/ request_accession
    \/ find_accession_step
    \/ request_accession_found
    \/ get_taxonomy_from_node_step
    \/ get_taxonomy_from_node_return
    \/ process_request_file_end
    \/ close_acc_file
    \/ main_return

Spec == Init /\ [][Next]_vars

(* ------------------------------------------------------------------ *)
(* find_accession over files of 2^30 bytes and more.  The bytes of     *)
(* such a file are not held: the file is its size and the place of the *)
(* records that compare equal to the query (len bytes from offset at,  *)
(* none when len is 0); the records before are smaller, the records    *)
(* after are greater.  Offsets are longs.                              *)
(* ------------------------------------------------------------------ *)
\* 2^30, 2^32, 2^32 + 40, 2^33, 2^33 + 2^20 and 3 * 2^32 bytes
WideSizes ==
    { <<0, 16384, 0, 0>>, <<0, 0, 1, 0>>, <<40, 0, 1, 0>>, <<0, 0, 2, 0>>, <<0, 16, 2, 0>>,
      <<0, 0, 3, 0>> }

\* the sorted files of a size: the record sought near the start, at a
\* quarter, at three quarters and near the end of the file, or absent
WideFiles ==
    { [size |-> n, at |-> a, len |-> l] :
      n \in WideSizes,
      a \in UNION { { LongOf(40), LongHalf(LongHalf(m)), LongSub(m, LongHalf(LongHalf(m))),
                      LongSub(m, LongOf(40)) } : m \in WideSizes },
      l \in {0, 12} }

\* strcmp(*accession, search_accession) for the record get_closest_record
\* reads at pos: the record that begins after the last newline before pos or
\* at pos
WideStrcmp(file, pos) ==
    IF LongLess(pos, LongSub(file.at, LongOf(1))) THEN -1
    ELSE IF file.len > 0 /\ ~LongLess(LongAdd(file.at, LongOf(file.len - 2)), pos) THEN 0
    ELSE 1

WideInit ==
    /\ is_gi = FALSE /\ max_gi = MaxGi
    /\ \E f \in WideFiles :
          /\ LongLess(LongAdd(f.at, LongOf(f.len)), f.size)
          /\ fs = Files(NoFile, f, NodesTree, NamesAll, AccKey(0, 5) \o <<NL>>, TRUE)
    /\ pc = "find_accession"
    /\ exit_status = "none"
    /\ gi_to_node = <<>> /\ nodes = <<>> /\ names = <<>>
    /\ acc_fp = "open" /\ acc_file_size = fs.acc.size
    /\ fp_pos = Len(fs.input)
    /\ line = AccKey(0, 5)
    /\ buffer = Uninit
    /\ t \in Garbage
    /\ count = 1 /\ out = <<>> /\ log = <<>>
    /\ min = LongZero /\ max = acc_file_size /\ found = 0
    /\ rec = NoRec
    /\ current_node = 0 /\ node_list = <<>>
    /\ ub = {}

\* one iteration of the loop of find_accession, on longs
find_accession_step_wide ==
    /\ pc = "find_accession"
    /\ LET current_pos == LongAdd(min, LongHalf(LongSub(max, min)))
           similarity == WideStrcmp(fs.acc, current_pos)
           min1 == IF similarity < 0 THEN current_pos ELSE min
           max1 == IF similarity > 0 THEN current_pos ELSE max
           width == LongSub(max1, min1)
       IN  /\ found' = IF similarity = 0 THEN 1 ELSE 0
           /\ min' = min1
           /\ max' = max1
           /\ ub' = IF IntOfLong(width) = IntMin THEN ub \cup {"abs overflow"} ELSE ub
           /\ \E give_up \in GivesUp(width) :
                 pc' = IF similarity = 0 \/ give_up
                       THEN "find_accession_return" ELSE "find_accession"
    /\ UNCHANGED << config, tables, exit_status, acc_fp, acc_file_size, fp_pos, rec, buffer,
                    request, log >>

WideNext == find_accession_step_wide

WideSpec == WideInit /\ [][WideNext]_vars

(* ------------------------------------------------------------------ *)
(* Reference definitions used by the properties                        *)
(* ------------------------------------------------------------------ *)
RECURSIVE FileLines(_, _)
\* the lines of a file from offset pos on, each with its newline
FileLines(file, pos) ==
    IF pos >= Len(file) THEN <<>>
    ELSE <<Fgets(file, pos)>> \o FileLines(file, pos + Len(Fgets(file, pos)))

\* the records of the accession file: its lines cut at the tabs
RecordsOf(file) ==
    { [accession |-> Tokens(l, TAB)[1],
       version   |-> Tokens(l, TAB)[2],
       taxid     |-> Atoi(Tokens(l, TAB)[3]),
       gi        |-> Atoi(Tokens(l, TAB)[4])] :
      l \in { FileLines(file, 0)[i] : i \in 1..Len(FileLines(file, 0)) } }

\* request k as the program looks it up: the line without its trailing control bytes
Trimmed(k) == chomp(FileLines(fs.input, 0)[k])

\* the output lines written for request k
Written(k) == { [id |-> out[j].id, lineage |-> out[j].lineage] :
                j \in { i \in 1..Len(out) : out[i].n = k } }

\* the requests whose handling has ended
Handled ==
    IF pc \in {"request_line", "close_acc_file", "return", "done"} THEN count ELSE count - 1

RECURSIVE ReachesRoot(_, _)
\* following the parent table from node arrives at id 1 within fuel steps
ReachesRoot(node, fuel) ==
    \/ node = 1
    \/ node > 1 /\ fuel > 0 /\ ReachesRoot(At(nodes, node), fuel - 1)

HasRoot(node) == ReachesRoot(node, Cardinality(DOMAIN nodes) + 1)

RECURSIVE AncestorsFirst(_)
\* the chain node, parent(node), ... without the root, the oldest ancestor first
AncestorsFirst(node) ==
    IF node = 1 THEN <<>> ELSE Append(AncestorsFirst(At(nodes, node)), node)

RECURSIVE JoinComma(_)
JoinComma(parts) ==
    IF parts = <<>> THEN <<>>
    ELSE IF Len(parts) = 1 THEN parts[1]
    ELSE parts[1] \o <<COMMA>> \o JoinComma(Tail(parts))

\* the lineage of a node whose chain reaches the root
LineageOf(node) ==
    LET chain == AncestorsFirst(node)
    IN  JoinComma([i \in 1..Len(chain) |->
                     IF chain[i] \in DOMAIN names THEN names[chain[i]] ELSE Unknown])

\* the taxon a GI resolves to, 0 when it resolves to none
TaxonOfGi(gi) == IF gi >= 1 /\ gi < max_gi /\ gi \in DOMAIN gi_to_node THEN gi_to_node[gi] ELSE 0

\* the argument of the walk made for the request handled last
WalkedFrom == IF is_gi THEN TaxonOfGi(Atoi(line)) ELSE rec.taxid

\* the request handled last ended with a walk of the parent table
WalkReturned ==
    /\ pc = "request_line"
    /\ count > 0
    /\ IF is_gi THEN TaxonOfGi(Atoi(line)) # 0 ELSE found = 1 /\ rec.taxid # 0

(* ------------------------------------------------------------------ *)
(* C1  find_accession finds every record of a sorted file of          *)
(* equal-length records and yields its fields.                         *)
(* ------------------------------------------------------------------ *)
\* C1: when find_accession returns for a query that is the accession of a
\* record of the file, found is 1 and rec is that record.
C1_FindsEveryRecord ==
    pc = "find_accession_return" /\ ub = {} =>
        \A r \in RecordsOf(fs.acc) : r.accession = line => found = 1 /\ rec = r

(* ------------------------------------------------------------------ *)
(* C2  find_accession reports only accessions of the file.             *)
(* ------------------------------------------------------------------ *)
\* C2: when find_accession returns 1, the accession it yields equals the
\* query and is the accession field of a record of the file.
C2_FoundIsARecord ==
    pc = "find_accession_return" /\ found = 1 /\ ub = {} =>
        /\ rec.accession = line
        /\ \E r \in RecordsOf(fs.acc) : r.accession = line

(* ------------------------------------------------------------------ *)
(* C3  the lineage of a taxon whose chain reaches the root.            *)
(* ------------------------------------------------------------------ *)
\* C3: after get_taxonomy_from_node(x, t) for a taxon x whose parent chain
\* reaches id 1, t is the comma-joined names (or "Unknown") of the chain
\* without the root, oldest ancestor first; it is empty for x = 1.
C3_LineageOfRootedTaxon ==
    WalkReturned /\ HasRoot(WalkedFrom) =>
        /\ t = LineageOf(WalkedFrom)
        /\ out[Len(out)] = [n |-> count, id |-> Identifier, lineage |-> LineageOf(WalkedFrom)]

\* a walk from taxon 4 over 4 -> 3 -> 2 -> 1, where 4 has no name and the
\* name of 3 was given twice
C3_Witness ==
    /\ WalkReturned /\ HasRoot(WalkedFrom)
    /\ WalkedFrom = 4
    /\ node_list = <<4, 3, 2>>
    /\ t = NameB \o <<COMMA>> \o NameQ \o <<COMMA>> \o Unknown

(* ------------------------------------------------------------------ *)
(* C4  GI mode writes no line for a GI that resolves to no taxon.      *)
(* ------------------------------------------------------------------ *)
\* C4: in GI mode every line of the output file belongs to a request whose
\* GI resolved to a taxon.
C4_UnresolvedGiNotWritten ==
    is_gi /\ ub = {} => \A j \in 1..Len(out) : TaxonOfGi(Atoi(Trimmed(out[j].n))) # 0

(* ------------------------------------------------------------------ *)
(* C5  accession mode: not found, found with taxid 0, found.           *)
(* ------------------------------------------------------------------ *)
\* C5: once the handling of an accession request has ended, nothing was
\* written for it if it was not found, exactly the line "<query> Unknown" if
\* it was found with taxid 0, and exactly one line for the query otherwise
\* (with the lineage of the taxid when its chain reaches the root); the
\* parent table is never walked for taxid 0.
C5_AccessionOutcomes ==
    /\ (~is_gi /\ pc = "get_taxonomy_from_node") => rec.taxid # 0
    /\ (~is_gi /\ count > 0 /\ pc \in {"request_line", "close_acc_file", "return", "done", "crashed"}) =>
            IF found = 0 THEN Written(count) = {}
            ELSE IF rec.taxid = 0 THEN Written(count) = {[id |-> line, lineage |-> Unknown]}
            ELSE /\ Cardinality({ j \in 1..Len(out) : out[j].n = count }) = 1
                 /\ \A w \in Written(count) : w.id = line
                 /\ HasRoot(rec.taxid) =>
                        Written(count) = {[id |-> line, lineage |-> LineageOf(rec.taxid)]}

(* ------------------------------------------------------------------ *)
(* C6  the output is the resolved part of the input, in order.         *)
(* ------------------------------------------------------------------ *)
\* request k resolves: its GI has a taxon, or its accession is in the file
Resolves(k) ==
    IF is_gi THEN TaxonOfGi(Atoi(Trimmed(k))) # 0
    ELSE \E r \in RecordsOf(fs.acc) : r.accession = Trimmed(k)

\* C6: (GI mode) every output line carries the trimmed text of the request
\* it was written for, that request resolved, and the lines are in request
\* order with at most one line per request.
C6_OutputIsResolvedInput ==
    is_gi /\ ub = {} =>
        \A j \in 1..Len(out) :
            /\ out[j].id = Trimmed(out[j].n)
            /\ Resolves(out[j].n)
            /\ j > 1 => out[j - 1].n < out[j].n

(* ------------------------------------------------------------------ *)
(* C7  the output of a request does not depend on earlier requests.    *)
(* ------------------------------------------------------------------ *)
\* C7: two handled requests with the same identifier had the same lines
\* written for them (or none both).
C7_SameIdentifierSameOutput ==
    ub = {} =>
        \A a, b \in 1..Handled : Trimmed(a) = Trimmed(b) => Written(a) = Written(b)

(* ------------------------------------------------------------------ *)
(* C8  the walk stays inside node_list.                                *)
(* ------------------------------------------------------------------ *)
\* C8: the walk never holds more than NodeListSize ids and never stores
\* past the end of node_list.
C8_WalkStaysInNodeList ==
    /\ Len(node_list) <= NodeListSize
    /\ "node_list index" \notin ub

(* ------------------------------------------------------------------ *)
(* C9  a GI of the GI file that is out of range ends the run.          *)
(* ------------------------------------------------------------------ *)
\* a line of the GI file has both fields
GiWellFormed(l) == Len(Tokens(l, TAB)) >= 2
GiOf(l) == Atoi(Tokens(l, TAB)[1])
TaxidOf(l) == Atoi(Tokens(l, TAB)[2])
\* the line has both fields and a gi that, as an unsigned int, is max_gi or more
GiLineOver(l) == GiWellFormed(l) /\ (GiOf(l) >= max_gi \/ GiOf(l) < 0)
\* the first line of lines that is out of range, 0 when there is none
FirstOver(lines) ==
    LET over == { k \in 1..Len(lines) : GiLineOver(lines[k]) }
    IN  IF over = {} THEN 0 ELSE CHOOSE k \in over : \A m \in over : k <= m
\* the offset of line k
GiOffset(lines, k) == Len(Cat(SubSeq(lines, 1, k - 1)))
\* the table after the first k lines, none of them out of range
GiTableAfter(lines, k) ==
    [g \in 0..(max_gi - 1) |->
        LET hits == { m \in 1..k : GiWellFormed(lines[m]) /\ GiOf(lines[m]) = g }
        IN  IF hits = {} THEN 0
            ELSE TaxidOf(lines[CHOOSE m \in hits : \A o \in hits : o <= m])]
\* the run ended in load_gi_to_node_list
GiAborted == pc = "exited" /\ log # <<>> /\ log[Len(log)].msg = "GI out of range"

\* C9: the loader never gets past the first well-formed line whose gi is out
\* of range: the run exits there with status 1, with the table holding the
\* lines before it, the malformed ones skipped, and with no node, no name
\* and no request read and no output written.
C9_GiOutOfRangeAborts ==
    (is_gi /\ fs.gi # NoFile) =>
        LET lines == FileLines(fs.gi, 0)
            first == FirstOver(lines)
        IN  /\ first # 0 =>
                   /\ pc \in {"allocate_memory", "load_gi_to_node_list", "gi_line", "exited"}
                   /\ pc = "gi_line" => fp_pos <= GiOffset(lines, first)
                   /\ pc = "exited" => GiAborted
            /\ GiAborted =>
                   /\ first # 0
                   /\ exit_status = "1"
                   /\ fp_pos = GiOffset(lines, first)
                   /\ gi_to_node = GiTableAfter(lines, first - 1)
                   /\ nodes = <<>> /\ names = <<>>
                   /\ count = 0 /\ out = <<>>
                   /\ Len(log) = 1 + Cardinality({ m \in 1..(first - 1) :
                                                     ~GiWellFormed(lines[m]) })

\* the run ended at the line whose gi is max_gi, after a malformed line and
\* with the line before it stored
C9_Witness ==
    /\ GiAborted
    /\ Fgets(fs.gi, fp_pos) = GiLine(max_gi, 4)
    /\ gi_to_node[max_gi - 1] = 3
    /\ log[1].msg = "bad line in GI file"

(* ------------------------------------------------------------------ *)
(* C10  a reference file that cannot be opened ends the run.           *)
(* ------------------------------------------------------------------ *)
\* how far main has come
Stage ==
    CASE pc = "allocate_memory" -> 0
      [] pc \in {"load_gi_to_node_list", "gi_line", "load_accession_file"} -> 1
      [] pc \in {"load_node_list", "node_line"} -> 2
      [] pc \in {"load_name_list", "name_line"} -> 3
      [] pc \in {"exited", "crashed"} -> 4
      [] OTHER -> 5

\* C10: when the gi_taxid file, nodes.dmp or names.dmp cannot be opened, no
\* stream operation is made on it, main gets no further than the loader of
\* that file, and the run ends by exit with status 1.
C10_MissingFileAborts ==
    /\ "null stream" \notin ub
    /\ (is_gi /\ fs.gi = NoFile) => (Stage <= 1 \/ (pc = "exited" /\ exit_status = "1"))
    /\ (fs.nodes = NoFile) => (Stage <= 2 \/ (pc = "exited" /\ exit_status = "1"))
    /\ (fs.names = NoFile) => (Stage <= 3 \/ (pc = "exited" /\ exit_status = "1"))

(* ------------------------------------------------------------------ *)
(* C11  the accession file is closed before the process ends.          *)
(* ------------------------------------------------------------------ *)
\* C11: the accession handle is open during every find_accession call, and
\* once the process has ended (by return or by exit) after open_acc_file
\* succeeded, close_acc_file has closed the handle.
C11_AccHandleClosedAtExit ==
    ub = {} =>
        /\ pc \in {"find_accession", "find_accession_return"} => acc_fp = "open"
        /\ (pc \in {"done", "exited"} /\ acc_fp # "null") => acc_fp = "closed"

(* ------------------------------------------------------------------ *)
(* C12  the search range keeps the matching record.                    *)
(* ------------------------------------------------------------------ *)
\* the offset of line k of a file and the offset after it
LineStart(lines, k) == Len(Cat(SubSeq(lines, 1, k - 1)))
LineEnd(lines, k) == LineStart(lines, k) + Len(lines[k])
\* the lines whose accession field is the query
Matching(lines, query) == { k \in 1..Len(lines) : Tokens(lines[k], TAB)[1] = query }

\* C12: at the start of every iteration of the loop of find_accession, for a
\* query that is the accession of a record of the file, 0 <= min <= max <= N
\* and the bytes of that record overlap or touch the range [min, max).
C12_RangeKeepsMatchingRecord ==
    pc = "find_accession" /\ ub = {} =>
        LET lines == FileLines(fs.acc, 0)
        IN  \A k \in Matching(lines, line) :
                /\ 0 <= min /\ min <= max /\ max <= acc_file_size
                /\ LineStart(lines, k) <= max
                /\ min <= LineEnd(lines, k)

(* ------------------------------------------------------------------ *)
(* C13  get_closest_record reads the record that contains pos.         *)
(* ------------------------------------------------------------------ *)
\* the line of the file whose bytes, newline included, contain offset pos
LineContaining(lines, pos) ==
    lines[CHOOSE k \in 1..Len(lines) : LineStart(lines, k) <= pos /\ pos < LineEnd(lines, k)]

\* C13: the call get_closest_record(current_pos, line) that an iteration of
\* find_accession is about to make yields the whole line of the record
\* whose bytes contain current_pos.
C13_ReadsContainingRecord ==
    pc = "find_accession" /\ ub = {} /\ Middle(min, max) < acc_file_size =>
        get_closest_record(fs.acc, Middle(min, max), buffer)
            = LineContaining(FileLines(fs.acc, 0), Middle(min, max))

(* ------------------------------------------------------------------ *)
(* C14  find_accession terminates.                                     *)
(* ------------------------------------------------------------------ *)
\* C14: every iteration of the loop of find_accession compares a record
\* read from the file and executes nothing undefined; an iteration that does
\* not match, made while max - min >= 20, leaves max - min smaller; and the
\* loop is left exactly when the iteration matched or left |max - min| < 20.
C14_SearchTerminates ==
    [][pc = "find_accession" =>
         /\ Fgets(fs.acc, ScanBack(fs.acc, Middle(min, max))) # NULL
         /\ ub' = ub
         /\ pc' \in {"find_accession", "find_accession_return"}
         /\ (found' = 0 /\ max - min >= Threshold) => max' - min' < max - min
         /\ pc' = "find_accession_return" <=> (found' = 1 \/ Abs(max' - min') < Threshold)
      ]_vars

(* ------------------------------------------------------------------ *)
(* C15  the walk ends at the root only.                                *)
(* ------------------------------------------------------------------ *)
\* C15: when get_taxonomy_from_node has returned, the walk stopped at id 1,
\* and the leftmost element of a non-empty lineage (the id stored last in
\* node_list) is a taxon whose parent is 1.
C15_WalkEndsAtRoot ==
    WalkReturned /\ ub = {} =>
        /\ current_node = 1
        /\ node_list # <<>> => At(nodes, node_list[Len(node_list)]) = 1

(* ------------------------------------------------------------------ *)
(* C16  chomp trims the request line.                                  *)
(* ------------------------------------------------------------------ *)
RECURSIVE Strip(_)
\* str without its trailing control bytes and spaces
Strip(str) ==
    IF str # <<>> /\ str[Len(str)] <= SPACE THEN Strip(SubSeq(str, 1, Len(str) - 1)) ELSE str

\* C16: the identifier looked up for a request is its line without every
\* trailing control byte and space, and nothing is looked up for a line that
\* consists of such bytes only.
C16_ChompTrimsLine ==
    count > 0 /\ ub = {} =>
        /\ line = Strip(FileLines(fs.input, 0)[count])
        /\ Strip(FileLines(fs.input, 0)[count]) = <<>> =>
               pc \notin {"find_accession", "find_accession_return", "get_taxonomy_from_node"}

(* ------------------------------------------------------------------ *)
(* C17  the tables are accessed inside their bounds.                   *)
(* ------------------------------------------------------------------ *)
\* C17: no load or store of nodes[] or names[] is made with an index
\* outside [0, MAX_NAMES), and gi_to_node[] holds entries 0 .. max_gi - 1 only.
C17_TableIndicesInBounds ==
    /\ "nodes index" \notin ub
    /\ "names index" \notin ub
    /\ \A i \in DOMAIN nodes : InTable(i)
    /\ \A i \in DOMAIN names : InTable(i)
    /\ \A g \in DOMAIN gi_to_node : g >= 0 /\ g < max_gi

(* ------------------------------------------------------------------ *)
(* C18  the convergence test on files beyond 2^31 bytes.               *)
(* ------------------------------------------------------------------ *)
\* C18: when the search over a file of any size gives up, having executed
\* nothing undefined, the width max - min of its range is below 20.
C18_GivesUpOnlyBelowThreshold ==
    pc = "find_accession_return" /\ found = 0 /\ ub = {} =>
        LongLess(LongSub(max, min), LongOf(Threshold))
====
